---------------------------- MODULE Spec2Model ----------------------------
(***************************************************************************)
(* Sales and cash-drawer reconciliation of the point-of-sale application.  *)
(*                                                                         *)
(* The application state (products, sales, cashDrawer, historicalReports,  *)
(* currentView) lives in the App component and is mirrored to localStorage.*)
(* The screens (sales screen, daily report, previous report, the two       *)
(* modals and the product registration form) call the App handlers.  The   *)
(* remote store (supabaseRepo) is written best-effort by each handler and  *)
(* read once per mount by fetchInitialData.                                *)
(*                                                                         *)
(* Money is an integer number of cents.  Prices are whole currency units   *)
(* (multiples of 100 cents) and percentages are integers, so that          *)
(* subtotal * value / 100 is exact.                                        *)
(*                                                                         *)
(* An instant is an integer tick of the wall clock.  Date.now() and        *)
(* new Date() both read it; the clock need not advance between two         *)
(* handlers.                                                               *)
(***************************************************************************)
EXTENDS Integers, Sequences, FiniteSets, TLC

(***************************************************************************)
(* Bounds.  Each specification at the end of the module explores one part  *)
(* of the application and bounds what a run may grow to: product ids,      *)
(* committed sales, withdrawals, clock ticks, failed remote writes.        *)
(* MaxCash caps the closing cash a day may end with (reopening with the    *)
(* previous closing cash lets it grow without limit).                      *)
(***************************************************************************)
SaleProducts == 2
SaleSales == 1
SaleNetFailures == 1
LogProducts == 1
LogSales == 2
LogWithdrawals == 1
DayProducts == 1
DaySales == 2
DayTime == 2
SyncTime == 1
SyncNetFailures == 1
GateProducts == 1
GateSales == 1
FailProducts == 1
FailSales == 1
FailWithdrawals == 1
FailNetFailures == 1
ArchiveProducts == 1
ArchiveSales == 1
ArchiveWithdrawals == 2
ArchiveTime == 1
CarryWithdrawals == 1
CarryTime == 2
RaceProducts == 1
RaceSales == 1
RaceWithdrawals == 1
MaxCash == 200

(***************************************************************************)
(* The calendar.  A day has DayLen ticks.  The local zone is TzOffset      *)
(* ticks behind UTC (America/Sao_Paulo is behind UTC), so in the last      *)
(* TzOffset ticks of a local day the UTC date is already the next one.     *)
(***************************************************************************)
DayLen == 2
TzOffset == 1

\* A variant of localDayKey that reads the UTC fields of the date, as
\* toISOString does; the day-key property has to tell the two apart.
utcDayKey(t) == (t + TzOffset) \div DayLen

\* Date#getFullYear/getMonth/getDate: the local calendar day of instant t.
localDayKey(t) == t \div DayLen

\* Date#toISOString().split('T')[0]: the UTC calendar day of instant t.
todayStr(t) == (t + TzOffset) \div DayLen

(***************************************************************************)
(* Values the user, a CSV file or a form can supply.                       *)
(***************************************************************************)
Cash == "Cash"
Pix == "Pix"
PaymentMethod == {Cash, Pix}

\* Stock and price typed in the registration and edit forms.
StockInputs == {-1, 2}
PriceInputs == {-100, 100}

\* The data rows of an imported CSV file (stock and price as parseInt and
\* parseFloat read them).
CsvRows == {[stock |-> 2, price |-> 100], [stock |-> -1, price |-> 100],
            [stock |-> 2, price |-> -100]}

\* The discount field of the sales screen: the text typed ("" when left
\* empty, otherwise the number parseFloat reads) and the selected type.
NoText == <<>>
DiscountTexts == {NoText, <<50>>, <<150>>}
DiscountTypes == {"fixed", "percentage"}

\* Amounts typed in the opening-cash and withdrawal fields.
OpeningInputs == {-100, 100}
WithdrawalInputs == {0, 100}
ReasonInputs == {"", "troco"}

Views == {"register", "sales", "report", "previousReport"}

NULL == <<>>
Some(v) == <<v>>

VARIABLES
    products,              \* App state: Product[]
    sales,                 \* App state: Sale[]
    currentView,           \* App state: View
    cashDrawer,            \* App state: CashDrawer
    historicalReports,     \* App state: Record<dayKey, HistoricalReport>
    isCashDrawerModalOpen, \* App state: the open-cash-drawer modal
    today,                 \* App: useMemo(() => localDayKey(new Date()), [])
    cart,                  \* SalesScreen state: SaleItem[]
    now,                   \* the wall clock
    fetchState,            \* the bootstrap effect: pending, answered or done
    remote,                \* the tables of the remote store
    netFailures,           \* how many remote writes have failed so far
    lastOp                 \* the handler that ran last, with its inputs

vars == <<products, sales, currentView, cashDrawer, historicalReports,
          isCashDrawerModalOpen, today, cart, now, fetchState, remote,
          netFailures, lastOp>>

local == <<products, sales, cashDrawer, historicalReports>>

(***************************************************************************)
(* Generic helpers.                                                        *)
(***************************************************************************)
Min(a, b) == IF a <= b THEN a ELSE b
Max(a, b) == IF a >= b THEN a ELSE b

RECURSIVE Sum(_)
\* Array#reduce((acc, x) => acc + x, 0)
Sum(s) == IF s = <<>> THEN 0 ELSE Head(s) + Sum(Tail(s))

\* Array#map
MapSeq(s, f(_)) == [i \in 1..Len(s) |-> f(s[i])]

\* Array#find(p): the index of the first element satisfying p, 0 if none.
FindIndex(s, p(_)) ==
    IF \E i \in 1..Len(s) : p(s[i])
    THEN CHOOSE i \in 1..Len(s) : p(s[i]) /\ \A j \in 1..(i - 1) : ~p(s[j])
    ELSE 0

\* The largest element of a finite set of naturals, 0 for the empty set.
MaxOf(S) == IF S = {} THEN 0 ELSE CHOOSE x \in S : \A y \in S : y <= x

\* obj[key] = value on a Record<key, value>: { ...obj, [key]: value }
Put(f, k, v) == [x \in DOMAIN f \cup {k} |-> IF x = k THEN v ELSE f[x]]

\* The keys of a Record in ascending order.
RECURSIVE SortedKeys(_)
SortedKeys(S) ==
    IF S = {} THEN <<>>
    ELSE LET m == CHOOSE x \in S : \A y \in S : x <= y
         IN <<m>> \o SortedKeys(S \ {m})

(***************************************************************************)
(* What is on screen.                                                      *)
(***************************************************************************)
\* A variant of SalesScreenShown that looks at the view only; the
\* drawer-gating property has to tell the two apart.
salesViewSelected == currentView = "sales"

\* App renders <SalesScreen> only in the sales view with the drawer open.
SalesScreenShown == currentView = "sales" /\ cashDrawer.isOpen

\* <DailyReport> shows the day's figures and buttons only with the drawer
\* open; with it closed it shows the "Iniciar Caixa" card.
DailyReportOpenShown == currentView = "report" /\ cashDrawer.isOpen
DailyReportClosedShown == currentView = "report" /\ ~cashDrawer.isOpen

\* The cart is state of <SalesScreen>: it is lost when the screen unmounts.
CartAfter(view, drawer, c) ==
    IF view = "sales" /\ drawer.isOpen THEN c ELSE <<>>

\* <OpenCashDrawerModal> is an overlay over the whole page (fixed inset-0
\* z-50): while it is open only its own buttons can be clicked.
PageClickable == ~isCashDrawerModalOpen

\* lastOp remembers the last handler that ran and what it was given; steps
\* that only move around the page (navigation, cart edits, the clock) leave
\* NoOp.
Op(name, args) == [op |-> name, args |-> args]
NoOp == Op("none", [none |-> TRUE])

(***************************************************************************)
(* The remote store: the tables supabaseRepo reads and writes.             *)
(*   products       id -> row                                              *)
(*   sales          rows in insertion order, each with its sale_items      *)
(*   cash_drawers   date -> row, closing_cash NULL until closed            *)
(*   withdrawals    rows in insertion order                                *)
(* A write either reaches the table or fails with an error (thrown by the  *)
(* repository function and caught by the handler).                         *)
(***************************************************************************)
NetOutcomes == {"ok", "fail"}

NetCount(net) == IF net = "ok" THEN netFailures ELSE netFailures + 1

ProductRow(p) == [stock |-> p.stock, price |-> p.price]

\* upsertProduct(p)
upsertProduct(r, p) ==
    [r EXCEPT !.products = Put(r.products, p.id, ProductRow(p))]

\* upsertProducts(list): returns at once on an empty list.
RECURSIVE upsertProducts(_, _)
upsertProducts(r, list) ==
    IF list = <<>> THEN r
    ELSE upsertProducts(upsertProduct(r, Head(list)), Tail(list))

\* Every product id in use anywhere; crypto.randomUUID() returns none of them.
UsedProductIds ==
    {products[i].id : i \in 1..Len(products)} \cup DOMAIN remote.products
    \cup {cart[i].productId : i \in 1..Len(cart)}
    \cup UNION {{sales[i].items[j].productId : j \in 1..Len(sales[i].items)} :
                  i \in 1..Len(sales)}
    \cup UNION {{remote.sales[i].sale_items[j].product_id :
                   j \in 1..Len(remote.sales[i].sale_items)} :
                  i \in 1..Len(remote.sales)}

\* The k fresh ids handed to k new products.
FreshIds(k) == [i \in 1..k |-> MaxOf(UsedProductIds) + i]

(***************************************************************************)
(* Product registration (ProductRegistration.tsx and the App handlers).    *)
(***************************************************************************)
\* handleAddProduct: append the product, then upsert it remotely.
handleAddProduct(prev, id, productData) ==
    Append(prev, [id |-> id, stock |-> productData.stock, price |-> productData.price])

\* handleUpdateProduct: replace the product with the same id.
handleUpdateProduct(prev, updatedProduct) ==
    MapSeq(prev, LAMBDA p : IF p.id = updatedProduct.id THEN updatedProduct ELSE p)

\* handleBulkAddProducts: append every row with a fresh id.
handleBulkAddProducts(prev, ids, newProducts) ==
    prev \o [i \in 1..Len(newProducts) |->
               [id |-> ids[i], stock |-> newProducts[i].stock, price |-> newProducts[i].price]]

\* handleAddSubmit: the form submits only a stock and a price that are >= 0.
HandleAddSubmit ==
    /\ PageClickable
    /\ currentView = "register"
    /\ \E stock \in StockInputs, price \in PriceInputs, net \in NetOutcomes :
         LET id == FreshIds(1)[1]
             accepted == price >= 0 /\ stock >= 0
             added == handleAddProduct(products, id, [stock |-> stock, price |-> price])
         IN /\ (~accepted => net = "ok")
            /\ products' = IF accepted THEN added ELSE products
            /\ remote' = IF accepted /\ net = "ok"
                         THEN upsertProduct(remote, added[Len(added)])
                         ELSE remote
            /\ netFailures' = NetCount(net)
            /\ lastOp' = Op("addProduct", [accepted |-> accepted])
    /\ UNCHANGED <<sales, currentView, cashDrawer, historicalReports,
                   isCashDrawerModalOpen, today, cart, now, fetchState>>

\* handleUpdateSubmit: the edit form's number inputs carry min=0, so the
\* browser submits only values >= 0.
HandleUpdateSubmit ==
    /\ PageClickable
    /\ currentView = "register"
    /\ \E i \in 1..Len(products), stock \in StockInputs, price \in PriceInputs,
          net \in NetOutcomes :
         LET editingProduct == [products[i] EXCEPT !.stock = stock, !.price = price]
         IN /\ stock >= 0 /\ price >= 0
            /\ products' = handleUpdateProduct(products, editingProduct)
            /\ remote' = IF net = "ok" THEN upsertProduct(remote, editingProduct) ELSE remote
            /\ netFailures' = NetCount(net)
            /\ lastOp' = Op("updateProduct", [id |-> editingProduct.id])
    /\ UNCHANGED <<sales, currentView, cashDrawer, historicalReports,
                   isCashDrawerModalOpen, today, cart, now, fetchState>>

\* handleFileImport: every row whose stock and price parse as numbers is
\* imported; there is no range check.
HandleFileImport ==
    /\ PageClickable
    /\ currentView = "register"
    /\ \E row \in CsvRows, net \in NetOutcomes :
         LET newProducts == <<row>>
             ids == FreshIds(Len(newProducts))
             added == handleBulkAddProducts(products, ids, newProducts)
         IN /\ products' = added
            /\ remote' = IF net = "ok"
                         THEN upsertProducts(remote, SubSeq(added, Len(products) + 1, Len(added)))
                         ELSE remote
            /\ netFailures' = NetCount(net)
            /\ lastOp' = Op("importProducts", [rows |-> Len(newProducts)])
    /\ UNCHANGED <<sales, currentView, cashDrawer, historicalReports,
                   isCashDrawerModalOpen, today, cart, now, fetchState>>

(***************************************************************************)
(* The sales screen (SalesScreen.tsx).                                     *)
(***************************************************************************)
\* The product tiles: products in stock.  (The category tab only selects
\* which of them are listed; either tab can be chosen at any time.)
availableProducts == SelectSeq(products, LAMBDA p : p.stock > 0)

\* addToCart(product)
addToCart(c, product) ==
    LET i == FindIndex(c, LAMBDA item : item.productId = product.id)
    IN IF i # 0
       THEN IF c[i].quantity < product.stock
            THEN MapSeq(c, LAMBDA item :
                     IF item.productId = product.id
                     THEN [item EXCEPT !.quantity = item.quantity + 1]
                     ELSE item)
            ELSE c
       ELSE Append(c, [productId |-> product.id, quantity |-> 1,
                       pricePerItem |-> product.price])

\* updateQuantity(productId, newQuantity)
updateQuantity(c, prods, productId, newQuantity) ==
    LET i == FindIndex(prods, LAMBDA p : p.id = productId)
    IN IF i = 0 THEN c
       ELSE LET clampedQuantity == Max(0, Min(newQuantity, prods[i].stock))
            IN IF clampedQuantity = 0
               THEN SelectSeq(c, LAMBDA item : item.productId # productId)
               ELSE MapSeq(c, LAMBDA item :
                        IF item.productId = productId
                        THEN [item EXCEPT !.quantity = clampedQuantity]
                        ELSE item)

\* A click on a product tile.
AddToCart ==
    /\ PageClickable
    /\ SalesScreenShown
    /\ \E i \in 1..Len(availableProducts) :
         /\ cart' = addToCart(cart, availableProducts[i])
         /\ lastOp' = NoOp
    /\ UNCHANGED <<products, sales, currentView, cashDrawer, historicalReports,
                   isCashDrawerModalOpen, today, now, fetchState, remote, netFailures>>

\* The -, + and quantity field of a cart line.
QuantityTexts == {0, 9}

UpdateQuantity ==
    /\ PageClickable
    /\ SalesScreenShown
    /\ \E i \in 1..Len(cart) :
         \E newQuantity \in {cart[i].quantity - 1, cart[i].quantity + 1} \cup QuantityTexts :
           /\ cart' = updateQuantity(cart, products, cart[i].productId, newQuantity)
           /\ lastOp' = NoOp
    /\ UNCHANGED <<products, sales, currentView, cashDrawer, historicalReports,
                   isCashDrawerModalOpen, today, now, fetchState, remote, netFailures>>

\* subtotal of the screen and of handleAddSale: sum of price * quantity.
subtotalOf(cartItems) ==
    Sum(MapSeq(cartItems, LAMBDA it : it.pricePerItem * it.quantity))

\* The discount shown on the sales screen before finalizing.
screenDiscountAmount(subtotal, discountText, discountType) ==
    LET value == IF discountText = NoText THEN 0 ELSE discountText[1]
    IN IF value <= 0 THEN 0
       ELSE IF discountType = "percentage"
            THEN (subtotal * value) \div 100
            ELSE Min(value, subtotal)

\* The third argument handleFinalizeSale passes:
\* discountValue ? { type, value: parseFloat(discountValue) } : undefined
discountArgument(discountText, discountType) ==
    IF discountText # NoText
    THEN Some([type |-> discountType, value |-> discountText[1]])
    ELSE NULL

(***************************************************************************)
(* handleAddSale (App).  discount is NULL for undefined; reading           *)
(* discount.value then throws a TypeError, which ends the handler before   *)
(* it sets anything.                                                       *)
(***************************************************************************)
throwsOnDiscount(discount) == discount = NULL

discountAmountOf(subtotal, discount) ==
    LET d == discount[1]
        raw == IF d.value # 0 /\ d.value > 0
               THEN IF d.type = "percentage"
                    THEN (subtotal * d.value) \div 100
                    ELSE d.value
               ELSE 0
    IN Min(subtotal, raw)

newSaleOf(cartItems, paymentMethod, discount, t) ==
    LET subtotal == subtotalOf(cartItems)
        discountAmount == discountAmountOf(subtotal, discount)
    IN [id |-> t,
        items |-> cartItems,
        subtotal |-> subtotal,
        discountType |-> IF discount[1].value # 0 THEN discount[1].type ELSE "undefined",
        discountValue |-> discount[1].value,
        discountAmount |-> discountAmount,
        total |-> subtotal - discountAmount,
        paymentMethod |-> paymentMethod,
        timestamp |-> t]

\* A variant of applyStockDeduction that leaves the stock alone; the
\* atomic-commit property has to tell the two apart.
skipStockDeduction(prods, cartItems) == prods

\* The stock update of handleAddSale.
applyStockDeduction(prods, cartItems) ==
    MapSeq(prods, LAMBDA p :
        LET i == FindIndex(cartItems, LAMBDA ci : ci.productId = p.id)
        IN IF i = 0 THEN p
           ELSE [p EXCEPT !.stock = Max(0, p.stock - cartItems[i].quantity)])

\* A variant of appendSale that puts the new sale first; the append-only
\* property has to tell the two apart.
prependSale(prev, newSale) == <<newSale>> \o prev

\* setSales(prev => [...prev, newSale])
appendSale(prev, newSale) == Append(prev, newSale)

\* recordSale(sale): insert the sale row, then its items.
SaleRow(sale, items) ==
    [id |-> sale.id, subtotal |-> sale.subtotal,
     discount_type |-> IF sale.discountType = "undefined" THEN "null" ELSE sale.discountType,
     discount_value |-> sale.discountValue,
     discount_amount |-> sale.discountAmount, total |-> sale.total,
     payment_method |-> sale.paymentMethod, timestamp |-> sale.timestamp,
     sale_items |-> items]

ItemRows(sale) ==
    MapSeq(sale.items, LAMBDA it :
        [product_id |-> it.productId, quantity |-> it.quantity,
         price_per_item |-> it.pricePerItem])

\* The outcomes of the two remote writes of handleAddSale:
\*   "fail"        the sale insert fails
\*   "fail_items"  the sale row is in, the sale_items insert fails
\*   "fail_stock"  recordSale succeeds, upsertProducts fails
\*   "ok"          both succeed
SaleNetOutcomes == {"ok", "fail", "fail_items", "fail_stock"}

persistSale(r, sale, updatedProducts, net) ==
    IF net = "fail" \/ \E i \in 1..Len(r.sales) : r.sales[i].id = sale.id
    THEN r
    ELSE IF net = "fail_items"
         THEN [r EXCEPT !.sales = Append(r.sales, SaleRow(sale, <<>>))]
         ELSE LET withSale == [r EXCEPT !.sales = Append(r.sales, SaleRow(sale, ItemRows(sale)))]
              IN IF net = "fail_stock" THEN withSale
                 ELSE upsertProducts(withSale, updatedProducts)

\* A variant of emptyCartReturns that lets an empty cart through; the
\* empty-cart property has to tell the two apart.
neverReturns(cartItems) == FALSE

\* if (!cartItems.length) return;  The "Finalizar" button is disabled in the
\* same case, so a click on it with an empty cart reaches nothing either.
emptyCartReturns(cartItems) == Len(cartItems) = 0

\* handleFinalizeSale: a click on "Finalizar".
HandleFinalizeSale ==
    /\ PageClickable
    /\ SalesScreenShown
    /\ \E paymentMethod \in PaymentMethod, discountText \in DiscountTexts,
          discountType \in DiscountTypes, net \in SaleNetOutcomes :
         LET discount == discountArgument(discountText, discountType)
         IN IF emptyCartReturns(cart)
            THEN /\ net = "ok" /\ paymentMethod = Cash /\ discountType = "fixed"
                 /\ discountText = NoText
                 /\ UNCHANGED <<sales, products, remote, netFailures>>
                 /\ lastOp' = Op("finalizeEmptyCart", [none |-> TRUE])
            ELSE /\ IF throwsOnDiscount(discount)
                    THEN /\ net = "ok" /\ paymentMethod = Cash /\ discountType = "fixed"
                         /\ UNCHANGED <<sales, products, remote>>
                    ELSE LET newSale == newSaleOf(cart, paymentMethod, discount, now)
                             updatedProducts == applyStockDeduction(products, cart)
                         IN /\ sales' = appendSale(sales, newSale)
                            /\ products' = updatedProducts
                            /\ remote' = persistSale(remote, newSale, updatedProducts, net)
                 /\ netFailures' = NetCount(net)
                 /\ lastOp' = Op("finalizeSale", [discountText |-> discountText])
    /\ cart' = <<>>
    /\ UNCHANGED <<currentView, cashDrawer, historicalReports,
                   isCashDrawerModalOpen, today, now, fetchState>>

(***************************************************************************)
(* The cash drawer (App, DailyReport.tsx, OpenCashDrawerModal.tsx).        *)
(***************************************************************************)
\* onStartDayClick: the "Iniciar Caixa" button of the closed daily report.
OnStartDayClick ==
    /\ PageClickable
    /\ DailyReportClosedShown
    /\ isCashDrawerModalOpen' = TRUE
    /\ lastOp' = NoOp
    /\ UNCHANGED <<products, sales, currentView, cashDrawer, historicalReports,
                   today, cart, now, fetchState, remote, netFailures>>

\* onClose of the open-cash-drawer modal.
OnCloseModal ==
    /\ isCashDrawerModalOpen
    /\ isCashDrawerModalOpen' = FALSE
    /\ lastOp' = NoOp
    /\ UNCHANGED <<products, sales, currentView, cashDrawer, historicalReports,
                   today, cart, now, fetchState, remote, netFailures>>

\* A variant of handleStartDay that leaves the drawer as it was, as a
\* rolled-back start would; the remote-failure property has to tell the two
\* apart.
keepDrawer(prev, openingAmount) == prev

\* A variant of handleStartDay that builds the drawer anew instead of
\* spreading the previous one; the start-day property has to tell the two
\* apart.
startFromScratch(prev, openingAmount) ==
    [isOpen |-> TRUE, openingCash |-> openingAmount, previousClosingCash |-> 0]

\* setCashDrawer(prev => ({ ...prev, isOpen: true, openingCash: openingAmount }))
handleStartDay(prev, openingAmount) ==
    [prev EXCEPT !.isOpen = TRUE, !.openingCash = openingAmount]

\* openCashDrawer(openingAmount): the handler passes no previousClosingCash,
\* so previous_closing_cash is written as undefined ?? 0.  An upsert keyed
\* by date keeps the closing_cash of a row that exists.
openCashDrawer(r, openingAmount, t) ==
    LET date == todayStr(t)
        closing == IF date \in DOMAIN r.cash_drawers
                   THEN r.cash_drawers[date].closing_cash ELSE NULL
    IN [r EXCEPT !.cash_drawers =
          Put(r.cash_drawers, date,
              [opening_cash |-> openingAmount, previous_closing_cash |-> 0,
               closing_cash |-> closing])]

\* handleStart of the modal: "previous" passes previousClosingCash, "manual"
\* passes the typed amount when it is a number >= 0 and does nothing
\* otherwise.  The modal is rendered by App whatever the view and the drawer.
HandleStart ==
    /\ isCashDrawerModalOpen
    /\ \E selectedOption \in {"previous", "manual"}, manualAmount \in OpeningInputs,
          net \in NetOutcomes :
         LET starts == selectedOption = "previous" \/ manualAmount >= 0
             openingAmount == IF selectedOption = "previous"
                              THEN cashDrawer.previousClosingCash ELSE manualAmount
         IN /\ (~starts => net = "ok")
            /\ cashDrawer' = IF starts THEN handleStartDay(cashDrawer, openingAmount)
                             ELSE cashDrawer
            /\ isCashDrawerModalOpen' = ~starts
            /\ remote' = IF starts /\ net = "ok"
                         THEN openCashDrawer(remote, openingAmount, now) ELSE remote
            /\ netFailures' = NetCount(net)
            /\ lastOp' = Op("startDay", [started |-> starts, wasOpen |-> cashDrawer.isOpen,
                                         amount |-> IF starts THEN openingAmount ELSE 0])
    /\ cart' = CartAfter(currentView, cashDrawer', cart)
    /\ UNCHANGED <<products, sales, currentView, historicalReports, today, now,
                   fetchState>>

\* handleEndDay: the sales of the local day of the clock.
todaySalesOf(allSales, key) ==
    SelectSeq(allSales, LAMBDA sale : localDayKey(sale.timestamp) = key)

\* A variant of totalCashSalesOf that adds up the sales of every payment
\* method; the closing-cash property has to tell the two apart.
totalSalesOfAnyMethod(someSales) ==
    Sum(MapSeq(someSales, LAMBDA sale : sale.total))

totalCashSalesOf(someSales) ==
    Sum(MapSeq(SelectSeq(someSales, LAMBDA s : s.paymentMethod = Cash),
               LAMBDA sale : sale.total))

closingCashOf(drawer, allSales, t) ==
    drawer.openingCash + totalCashSalesOf(todaySalesOf(allSales, localDayKey(t)))

\* A variant of withdrawalsOf that hands the day's withdrawals back in the
\* opposite order; the end-of-day property has to tell the two apart.
reversedWithdrawalsOf(reports, key) ==
    IF key \in DOMAIN reports
    THEN [i \in 1..Len(reports[key].withdrawals) |->
            reports[key].withdrawals[Len(reports[key].withdrawals) + 1 - i]]
    ELSE <<>>

\* expectedClosingCash of the daily report, "Fechamento (Previsto)": the
\* opening cash plus the Cash sales whose local day key is todayKey, the key
\* App computed when it was mounted.
expectedClosingCashOf(drawer, allSales, todayKey) ==
    drawer.openingCash + totalCashSalesOf(todaySalesOf(allSales, todayKey))

\* historicalReports[todayStr]?.withdrawals ?? []
withdrawalsOf(reports, key) ==
    IF key \in DOMAIN reports THEN reports[key].withdrawals ELSE <<>>

newReportOf(drawer, allSales, reports, t) ==
    [openingCash |-> drawer.openingCash,
     closingCash |-> closingCashOf(drawer, allSales, t),
     date |-> localDayKey(t),
     withdrawals |-> withdrawalsOf(reports, localDayKey(t))]

closedDrawerOf(closingCash) ==
    [isOpen |-> FALSE, openingCash |-> 0, previousClosingCash |-> closingCash]

\* closeCashDrawer(closingCash): an update of the row of the UTC date; it
\* changes nothing when there is no such row.
closeCashDrawer(r, closingCash, t) ==
    LET date == todayStr(t)
    IN IF date \in DOMAIN r.cash_drawers
       THEN [r EXCEPT !.cash_drawers[date].closing_cash = Some(closingCash)]
       ELSE r

\* The "Encerrar Dia" button is part of the open daily report only.
HandleEndDay ==
    /\ PageClickable
    /\ DailyReportOpenShown
    /\ \E net \in NetOutcomes :
         LET newReport == newReportOf(cashDrawer, sales, historicalReports, now)
         IN /\ newReport.closingCash <= MaxCash
            /\ historicalReports' = Put(historicalReports, newReport.date, newReport)
            /\ cashDrawer' = closedDrawerOf(newReport.closingCash)
            /\ remote' = IF net = "ok"
                         THEN closeCashDrawer(remote, newReport.closingCash, now)
                         ELSE remote
            /\ netFailures' = NetCount(net)
            /\ lastOp' = Op("endDay", [none |-> TRUE])
    /\ cart' = CartAfter(currentView, cashDrawer', cart)
    /\ UNCHANGED <<products, sales, currentView, isCashDrawerModalOpen, today, now,
                   fetchState>>

(***************************************************************************)
(* Withdrawals (App, DailyReport.tsx, PreviousReport.tsx,                  *)
(* WithdrawalModal.tsx).                                                   *)
(***************************************************************************)
AllWithdrawals(reports) ==
    Sum(MapSeq(SortedKeys(DOMAIN reports), LAMBDA k : Len(reports[k].withdrawals)))

newWithdrawalOf(amount, reason, t) ==
    [id |-> t, amount |-> amount, reason |-> reason, timestamp |-> t]

\* A variant of handleAddWithdrawal that also takes the amount off the
\* closingCash of the report and tells the drawer nothing; the carried
\* balance property has to tell the two apart.
withdrawalLoweringClosing(reports, date, amount, reason, t) ==
    LET report == IF date \in DOMAIN reports THEN reports[date]
                  ELSE [openingCash |-> 0, closingCash |-> 0, date |-> date,
                        withdrawals |-> <<>>]
    IN Put(reports, date,
           [report EXCEPT !.closingCash = @ - amount,
                          !.withdrawals = Append(@, newWithdrawalOf(amount, reason, t))])

\* A variant of handleAddWithdrawal that always starts from a fresh stub,
\* whether the day has a report or not; the withdrawal property has to tell
\* the two apart.
freshStubWithdrawal(reports, date, amount, reason, t) ==
    Put(reports, date,
        [openingCash |-> 0, closingCash |-> 0, date |-> date,
         withdrawals |-> <<newWithdrawalOf(amount, reason, t)>>])

\* handleAddWithdrawal(date, amount, reason)
handleAddWithdrawal(reports, date, amount, reason, t) ==
    LET report == IF date \in DOMAIN reports THEN reports[date]
                  ELSE [openingCash |-> 0, closingCash |-> 0, date |-> date,
                        withdrawals |-> <<>>]
    IN Put(reports, date,
           [report EXCEPT !.withdrawals = Append(report.withdrawals,
                                                 newWithdrawalOf(amount, reason, t))])

\* recordWithdrawal(w, onDateISO)
recordWithdrawal(r, w, date) ==
    [r EXCEPT !.withdrawals =
        Append(r.withdrawals,
               [id |-> w.id, date |-> date, amount |-> w.amount, reason |-> w.reason,
                ts |-> w.timestamp])]

\* confirmWithdrawal of the daily report: an empty or non-positive amount
\* only closes the modal; an empty reason becomes "Retirada".
confirmWithdrawalAccepts(withdrawAmount) == withdrawAmount > 0

ConfirmWithdrawal ==
    /\ PageClickable
    /\ DailyReportOpenShown
    /\ \E withdrawAmount \in WithdrawalInputs, withdrawReason \in ReasonInputs,
          net \in NetOutcomes :
         LET reason == IF withdrawReason # "" THEN withdrawReason ELSE "Retirada"
             accepted == confirmWithdrawalAccepts(withdrawAmount)
         IN /\ (~accepted => net = "ok")
            /\ historicalReports' =
                 IF accepted
                 THEN handleAddWithdrawal(historicalReports, today, withdrawAmount, reason, now)
                 ELSE historicalReports
            /\ remote' = IF accepted /\ net = "ok"
                         THEN recordWithdrawal(remote,
                                  newWithdrawalOf(withdrawAmount, reason, now), today)
                         ELSE remote
            /\ netFailures' = NetCount(net)
            /\ lastOp' = Op("withdrawal",
                            [from |-> "daily", date |-> today, amount |-> withdrawAmount,
                             reason |-> withdrawReason, accepted |-> accepted])
    /\ UNCHANGED <<products, sales, currentView, cashDrawer, isCashDrawerModalOpen,
                   today, cart, now, fetchState>>

\* The previous report lists the sales whose UTC date is the selected date.
salesForSelectedDate(allSales, selectedDate) ==
    SelectSeq(allSales, LAMBDA sale : todayStr(sale.timestamp) = selectedDate)

totalWithdrawalsOf(report) ==
    Sum(MapSeq(report.withdrawals, LAMBDA w : w.amount))

\* maxAmount handed to <WithdrawalModal> by the previous report.
maxAmountOf(reports, allSales, selectedDate) ==
    IF selectedDate \in DOMAIN reports
    THEN reports[selectedDate].openingCash
         + totalCashSalesOf(salesForSelectedDate(allSales, selectedDate))
         - totalWithdrawalsOf(reports[selectedDate])
    ELSE 0

\* handleConfirm of <WithdrawalModal>
handleConfirmAccepts(numAmount, reason, maxAmount) ==
    /\ ~(numAmount <= 0)
    /\ ~(numAmount > maxAmount)
    /\ reason # ""

\* The "Fazer Retirada" button exists only when the selected date has a report.
HandleConfirmWithdrawal ==
    /\ PageClickable
    /\ currentView = "previousReport"
    /\ \E selectedDate \in DOMAIN historicalReports, amount \in WithdrawalInputs,
          reason \in ReasonInputs, net \in NetOutcomes :
         LET accepted == handleConfirmAccepts(amount, reason,
                             maxAmountOf(historicalReports, sales, selectedDate))
         IN /\ (~accepted => net = "ok")
            /\ historicalReports' =
                 IF accepted
                 THEN handleAddWithdrawal(historicalReports, selectedDate, amount, reason, now)
                 ELSE historicalReports
            /\ remote' = IF accepted /\ net = "ok"
                         THEN recordWithdrawal(remote, newWithdrawalOf(amount, reason, now),
                                               selectedDate)
                         ELSE remote
            /\ netFailures' = NetCount(net)
            /\ lastOp' = Op("withdrawal",
                            [from |-> "previous", date |-> selectedDate, amount |-> amount,
                             reason |-> reason, accepted |-> accepted])
    /\ UNCHANGED <<products, sales, currentView, cashDrawer, isCashDrawerModalOpen,
                   today, cart, now, fetchState>>

(***************************************************************************)
(* The bootstrap read (fetchInitialData and the mount effect of App).      *)
(***************************************************************************)
EmptyRecord == [k \in {} |-> 0]

fetchedProducts(r) ==
    MapSeq(SortedKeys(DOMAIN r.products), LAMBDA id :
        [id |-> id, stock |-> r.products[id].stock, price |-> r.products[id].price])

fetchedSales(r) ==
    MapSeq(r.sales, LAMBDA s :
        [id |-> s.id,
         items |-> MapSeq(s.sale_items, LAMBDA it :
                      [productId |-> it.product_id, quantity |-> it.quantity,
                       pricePerItem |-> it.price_per_item]),
         subtotal |-> s.subtotal,
         discountType |-> IF s.discount_type = "null" THEN "undefined" ELSE s.discount_type,
         discountValue |-> s.discount_value,
         discountAmount |-> s.discount_amount,
         total |-> s.total,
         paymentMethod |-> s.payment_method,
         timestamp |-> s.timestamp])

\* Number(x || 0) of a nullable column
NumberOr0(cell) == IF cell = NULL THEN 0 ELSE cell[1]

\* The query of the cash_drawers rows of the last 60 days.  It is the one
\* query whose error is not looked at: const { data: cds } = await ..., and
\* (cds || []) stands for the rows when the query failed.
cdsRows(r, cdsError) == IF cdsError THEN EmptyRecord ELSE r.cash_drawers

fetchedReports(r, cds) ==
    LET dates == DOMAIN cds
                 \cup {r.withdrawals[i].date : i \in 1..Len(r.withdrawals)}
    IN [d \in dates |->
          [openingCash |-> IF d \in DOMAIN cds
                           THEN cds[d].opening_cash ELSE 0,
           closingCash |-> IF d \in DOMAIN cds
                           THEN NumberOr0(cds[d].closing_cash) ELSE 0,
           date |-> d,
           withdrawals |->
               MapSeq(SelectSeq(r.withdrawals, LAMBDA w : w.date = d), LAMBDA w :
                   [id |-> w.id, amount |-> w.amount, reason |-> w.reason,
                    timestamp |-> w.ts])]]

\* A row of today's UTC date (a query of its own) means an open drawer;
\* otherwise the drawer is closed and seeded with the closing cash of the
\* latest of the rows of the last 60 days.
fetchedCashDrawer(r, cds, t) ==
    LET date == todayStr(t)
    IN IF date \in DOMAIN r.cash_drawers
       THEN [isOpen |-> TRUE,
             openingCash |-> r.cash_drawers[date].opening_cash,
             previousClosingCash |-> r.cash_drawers[date].previous_closing_cash]
       ELSE [isOpen |-> FALSE,
             openingCash |-> 0,
             previousClosingCash |->
                 IF DOMAIN cds = {} THEN 0
                 ELSE NumberOr0(cds[MaxOf(DOMAIN cds)].closing_cash)]

fetchInitialData(r, cds, t) ==
    [products |-> fetchedProducts(r),
     sales |-> fetchedSales(r),
     cashDrawer |-> fetchedCashDrawer(r, cds, t),
     historicalReports |-> fetchedReports(r, cds)]

\* The bootstrap effect is pending from the mount until the remote store
\* has answered the queries of fetchInitialData, then answered (the promise
\* holds the data read) until the continuation of the effect runs, then
\* done.  The handlers of the page run in between.
FetchPending == [phase |-> "pending", answer |-> <<>>]
FetchAnswered(initial, cdsError) ==
    [phase |-> "answered", answer |-> <<[initial |-> initial, cdsError |-> cdsError]>>]
FetchDone == [phase |-> "done", answer |-> <<>>]

\* The remote store answers the queries: the data are those of the store at
\* this moment.  The answer counts as good also when the query of the 60
\* days of cash_drawers rows returned an error.
FetchAnswer ==
    /\ fetchState = FetchPending
    /\ \E cdsError \in BOOLEAN :
         fetchState' = FetchAnswered(
                           fetchInitialData(remote, cdsRows(remote, cdsError), now),
                           cdsError)
    /\ lastOp' = NoOp
    /\ UNCHANGED <<products, sales, currentView, cashDrawer, historicalReports,
                   isCashDrawerModalOpen, today, cart, now, remote, netFailures>>

\* The fetch resolves: products and sales replace the local ones when they
\* are not empty, the drawer and the reports always do.
FetchResolve ==
    /\ fetchState.phase = "answered"
    /\ LET initial == fetchState.answer[1].initial
       IN /\ products' = IF initial.products # <<>> THEN initial.products ELSE products
          /\ sales' = IF initial.sales # <<>> THEN initial.sales ELSE sales
          /\ cashDrawer' = initial.cashDrawer
          /\ historicalReports' = initial.historicalReports
          /\ lastOp' = Op("fetch", [ok |-> TRUE, cdsError |-> fetchState.answer[1].cdsError])
    /\ fetchState' = FetchDone
    /\ cart' = CartAfter(currentView, cashDrawer', cart)
    /\ UNCHANGED <<currentView, isCashDrawerModalOpen, today, now, remote, netFailures>>

\* The query of the products, of the sales, of today's drawer row or of the
\* withdrawals returns an error: fetchInitialData throws and the effect only
\* logs a warning.
FetchReject ==
    /\ fetchState = FetchPending
    /\ fetchState' = FetchDone
    /\ lastOp' = Op("fetch", [ok |-> FALSE, cdsError |-> FALSE])
    /\ UNCHANGED <<products, sales, currentView, cashDrawer, historicalReports,
                   isCashDrawerModalOpen, today, cart, now, remote, netFailures>>

(***************************************************************************)
(* Navigation, the clock and a page reload.                                *)
(***************************************************************************)
\* setCurrentView of the header.
SetCurrentView ==
    /\ PageClickable
    /\ \E view \in Views \ {currentView} :
         /\ currentView' = view
         /\ cart' = CartAfter(view, cashDrawer, cart)
         /\ lastOp' = NoOp
    /\ UNCHANGED <<products, sales, cashDrawer, historicalReports,
                   isCashDrawerModalOpen, today, now, fetchState, remote, netFailures>>

Tick ==
    /\ now' = now + 1
    /\ lastOp' = NoOp
    /\ UNCHANGED <<products, sales, currentView, cashDrawer, historicalReports,
                   isCashDrawerModalOpen, today, cart, fetchState, remote, netFailures>>

\* A reload: usePersistentState restores the five persisted states from
\* localStorage; the modal, the cart and the memoized day key start afresh
\* and the mount effect fetches again.
Reload ==
    /\ fetchState = FetchDone
    /\ isCashDrawerModalOpen' = FALSE
    /\ cart' = <<>>
    /\ today' = localDayKey(now)
    /\ fetchState' = FetchPending
    /\ lastOp' = Op("reload", [none |-> TRUE])
    /\ UNCHANGED <<products, sales, currentView, cashDrawer, historicalReports,
                   now, remote, netFailures>>

(***************************************************************************)
(* The specification.                                                      *)
(***************************************************************************)
Init ==
    /\ products = <<>>
    /\ sales = <<>>
    /\ currentView = "register"
    /\ cashDrawer = [isOpen |-> FALSE, openingCash |-> 0, previousClosingCash |-> 0]
    /\ historicalReports = EmptyRecord
    /\ isCashDrawerModalOpen = FALSE
    /\ today = localDayKey(0)
    /\ cart = <<>>
    /\ now = 0
    /\ fetchState = FetchPending
    /\ remote = [products |-> EmptyRecord, sales |-> <<>>,
                 cash_drawers |-> EmptyRecord, withdrawals |-> <<>>]
    /\ netFailures = 0
    /\ lastOp = Op("mount", [none |-> TRUE])

\* What a run may grow to: product ids, committed sales, withdrawals, clock
\* ticks and failed remote writes.
Within(maxProducts, maxSales, maxWithdrawals, maxTime, maxNetFailures) ==
    /\ MaxOf(UsedProductIds) <= maxProducts
    /\ Len(sales) <= maxSales
    /\ AllWithdrawals(historicalReports) <= maxWithdrawals
    /\ now <= maxTime
    /\ netFailures <= maxNetFailures

\* The counter: registration, import, the cart and the commit of one sale,
\* on one day, while the bootstrap fetch is still outstanding.
SaleWithin == Within(SaleProducts, SaleSales, 0, 0, SaleNetFailures)

SaleNext ==
    \/ HandleAddSubmit /\ SaleWithin'
    \/ HandleUpdateSubmit /\ SaleWithin'
    \/ HandleFileImport /\ SaleWithin'
    \/ AddToCart
    \/ UpdateQuantity
    \/ HandleFinalizeSale /\ SaleWithin'
    \/ OnStartDayClick
    \/ OnCloseModal
    \/ HandleStart /\ SaleWithin'
    \/ SetCurrentView

SaleSpec == Init /\ [][SaleNext]_vars

\* The sales log under every local operation.
LogWithin == Within(LogProducts, LogSales, LogWithdrawals, 0, 0)

LogNext ==
    \/ HandleAddSubmit /\ LogWithin'
    \/ HandleUpdateSubmit /\ LogWithin'
    \/ HandleFileImport /\ LogWithin'
    \/ AddToCart
    \/ UpdateQuantity
    \/ HandleFinalizeSale /\ LogWithin'
    \/ OnStartDayClick
    \/ OnCloseModal
    \/ HandleStart /\ LogWithin'
    \/ HandleEndDay /\ LogWithin'
    \/ ConfirmWithdrawal /\ LogWithin'
    \/ HandleConfirmWithdrawal /\ LogWithin'
    \/ SetCurrentView

LogSpec == Init /\ [][LogNext]_vars

\* The cash drawer over several days.
DayWithin == Within(DayProducts, DaySales, 0, DayTime, 0)

DayNext ==
    \/ HandleAddSubmit /\ DayWithin'
    \/ AddToCart
    \/ HandleFinalizeSale /\ DayWithin'
    \/ OnStartDayClick
    \/ OnCloseModal
    \/ HandleStart /\ DayWithin'
    \/ HandleEndDay /\ DayWithin'
    \/ SetCurrentView
    \/ Tick /\ DayWithin'

DaySpec == Init /\ [][DayNext]_vars

\* The drawer against the remote store: bootstrap fetch, reload, failures.
SyncWithin == Within(0, 0, 0, SyncTime, SyncNetFailures)

SyncNext ==
    \/ OnStartDayClick
    \/ OnCloseModal
    \/ HandleStart /\ SyncWithin'
    \/ HandleEndDay /\ SyncWithin'
    \/ FetchAnswer
    \/ FetchResolve
    \/ FetchReject
    \/ SetCurrentView
    \/ Tick /\ SyncWithin'
    \/ Reload

SyncSpec == Init /\ [][SyncNext]_vars

\* The sales screen against the drawer: one sale, with the bootstrap fetch
\* and reloads in play.
GateWithin == Within(GateProducts, GateSales, 0, 0, 0)

GateNext ==
    \/ HandleAddSubmit /\ GateWithin'
    \/ AddToCart
    \/ HandleFinalizeSale /\ GateWithin'
    \/ OnStartDayClick
    \/ OnCloseModal
    \/ HandleStart /\ GateWithin'
    \/ HandleEndDay /\ GateWithin'
    \/ FetchAnswer
    \/ FetchResolve
    \/ FetchReject
    \/ SetCurrentView
    \/ Reload

GateSpec == Init /\ [][GateNext]_vars

\* Every handler with a remote write that can fail: one product, one sale,
\* one withdrawal, on one day.
FailWithin == Within(FailProducts, FailSales, FailWithdrawals, 0, FailNetFailures)

FailNext ==
    \/ HandleAddSubmit /\ FailWithin'
    \/ HandleUpdateSubmit /\ FailWithin'
    \/ HandleFileImport /\ FailWithin'
    \/ AddToCart
    \/ HandleFinalizeSale /\ FailWithin'
    \/ OnStartDayClick
    \/ OnCloseModal
    \/ HandleStart /\ FailWithin'
    \/ HandleEndDay /\ FailWithin'
    \/ ConfirmWithdrawal /\ FailWithin'
    \/ HandleConfirmWithdrawal /\ FailWithin'
    \/ SetCurrentView

FailSpec == Init /\ [][FailNext]_vars

\* The report archive: two withdrawals at two instants of one local day,
\* around one sale and the end of the day.
ArchiveWithin == Within(ArchiveProducts, ArchiveSales, ArchiveWithdrawals, ArchiveTime, 0)

ArchiveNext ==
    \/ HandleAddSubmit /\ ArchiveWithin'
    \/ AddToCart
    \/ HandleFinalizeSale /\ ArchiveWithin'
    \/ OnStartDayClick
    \/ OnCloseModal
    \/ HandleStart /\ ArchiveWithin'
    \/ HandleEndDay /\ ArchiveWithin'
    \/ ConfirmWithdrawal /\ ArchiveWithin'
    \/ HandleConfirmWithdrawal /\ ArchiveWithin'
    \/ SetCurrentView
    \/ Tick /\ ArchiveWithin'

ArchiveSpec == Init /\ [][ArchiveNext]_vars

\* The carried balance: the drawer over two local days with a withdrawal,
\* without products or sales.
CarryWithin == Within(0, 0, CarryWithdrawals, CarryTime, 0)

CarryNext ==
    \/ OnStartDayClick
    \/ OnCloseModal
    \/ HandleStart /\ CarryWithin'
    \/ HandleEndDay /\ CarryWithin'
    \/ ConfirmWithdrawal /\ CarryWithin'
    \/ HandleConfirmWithdrawal /\ CarryWithin'
    \/ SetCurrentView
    \/ Tick /\ CarryWithin'

CarrySpec == Init /\ [][CarryNext]_vars

\* The bootstrap fetch against local work: the fetch of the mount is
\* outstanding while a product is edited, a sale is committed, the drawer
\* moves and a withdrawal is recorded; every remote write succeeds.
RaceWithin == Within(RaceProducts, RaceSales, RaceWithdrawals, 0, 0)

RaceNext ==
    \/ HandleAddSubmit /\ RaceWithin'
    \/ HandleUpdateSubmit /\ RaceWithin'
    \/ AddToCart
    \/ HandleFinalizeSale /\ RaceWithin'
    \/ OnStartDayClick
    \/ OnCloseModal
    \/ HandleStart /\ RaceWithin'
    \/ HandleEndDay /\ RaceWithin'
    \/ ConfirmWithdrawal /\ RaceWithin'
    \/ FetchAnswer
    \/ FetchResolve
    \/ FetchReject
    \/ SetCurrentView

RaceSpec == Init /\ [][RaceNext]_vars

(***************************************************************************)
(* Properties.  A step of a handler is recognised by the lastOp it leaves. *)
(***************************************************************************)
\* A step that appended one sale to the log.
SaleCommitted ==
    /\ Len(sales') = Len(sales) + 1
    /\ SubSeq(sales', 1, Len(sales)) = sales

\* How many units of product id a list of sale items holds.
QuantitySold(items, id) ==
    Sum(MapSeq(SelectSeq(items, LAMBDA it : it.productId = id),
               LAMBDA it : it.quantity))

HasItem(items, id) == \E k \in 1..Len(items) : items[k].productId = id

\* The product collection after the step is the one before it with the
\* stock of every product of items lowered by the quantity sold, not below 0.
StockDeducted(items) ==
    /\ Len(products') = Len(products)
    /\ \A i \in 1..Len(products) :
         products'[i] =
           [products[i] EXCEPT !.stock =
              IF HasItem(items, products[i].id)
              THEN Max(0, products[i].stock - QuantitySold(items, products[i].id))
              ELSE products[i].stock]

\* The Cash sales of local day key, summed.
CashSalesOn(key) ==
    Sum(MapSeq(SelectSeq(sales, LAMBDA s : s.paymentMethod = Cash
                                           /\ localDayKey(s.timestamp) = key),
               LAMBDA s : s.total))

Withdrawn(report) == Sum(MapSeq(report.withdrawals, LAMBDA w : w.amount))

\* C1: finalizing a non-empty cart with the discount field left empty
\* appends exactly one sale with discountAmount 0 and total = subtotal, and
\* deducts the stock of the products sold.
C1_NoDiscountCommits ==
    [][(lastOp'.op = "finalizeSale" /\ lastOp'.args.discountText = NoText) =>
         /\ SaleCommitted
         /\ sales'[Len(sales')].items = cart
         /\ sales'[Len(sales')].discountAmount = 0
         /\ sales'[Len(sales')].total = sales'[Len(sales')].subtotal
         /\ StockDeducted(cart)]_vars

\* C2: when a sale is committed, every product in the cart ends with stock
\* max(0, stock before - quantity sold), every other product keeps its
\* stock, and no product has a negative stock afterwards.
C2_StockAfterCommit ==
    [][(lastOp'.op = "finalizeSale" /\ SaleCommitted) =>
         /\ StockDeducted(cart)
         /\ \A i \in 1..Len(products') : products'[i].stock >= 0]_vars

\* C3: every sale in the log has total = subtotal - discountAmount,
\* discountAmount >= 0, total >= 0, and a fixed discount is at most the
\* subtotal.
C3_SaleAmounts ==
    \A i \in 1..Len(sales) :
        /\ sales[i].total = sales[i].subtotal - sales[i].discountAmount
        /\ sales[i].discountAmount >= 0
        /\ sales[i].total >= 0
        /\ sales[i].discountType = "fixed" => sales[i].discountAmount <= sales[i].subtotal

\* C4: ending the day from an open drawer stores, under the current local
\* day key, a report with the drawer's openingCash and closingCash =
\* openingCash + the totals of the day's Cash sales (Pix excluded), and
\* leaves the drawer closed with openingCash 0 and previousClosingCash =
\* closingCash.
C4_EndDayClosing ==
    [][(lastOp'.op = "endDay" /\ cashDrawer.isOpen) =>
         LET key == localDayKey(now)
             closing == cashDrawer.openingCash + CashSalesOn(key)
         IN /\ key \in DOMAIN historicalReports'
            /\ historicalReports'[key].openingCash = cashDrawer.openingCash
            /\ historicalReports'[key].closingCash = closing
            /\ cashDrawer' = [isOpen |-> FALSE, openingCash |-> 0,
                              previousClosingCash |-> closing]]_vars

\* A day with opening cash, a Cash sale and a Pix sale, both of a positive
\* total, has just been ended and its report counts the Cash sale only.
C4_Witness ==
    /\ lastOp.op = "endDay"
    /\ ~cashDrawer.isOpen
    /\ localDayKey(now) \in DOMAIN historicalReports
    /\ LET report == historicalReports[localDayKey(now)]
       IN /\ report.openingCash > 0
          /\ cashDrawer.previousClosingCash = report.closingCash
          /\ \E i, j \in 1..Len(sales) :
               /\ sales[i].paymentMethod = Cash /\ sales[i].total > 0
               /\ sales[j].paymentMethod = Pix /\ sales[j].total > 0
               /\ localDayKey(sales[i].timestamp) = localDayKey(now)
               /\ localDayKey(sales[j].timestamp) = localDayKey(now)
               /\ report.closingCash = report.openingCash + sales[i].total

\* C5: the report endDay writes reconciles with the day's cash movements:
\* closingCash = openingCash + Cash sales of the day - the withdrawals
\* attached to the report.
C5_ClosingReconciles ==
    [][lastOp'.op = "endDay" =>
         LET key == localDayKey(now)
             report == historicalReports'[key]
         IN report.closingCash =
              report.openingCash + CashSalesOn(key) - Withdrawn(report)]_vars

\* The cash a withdrawal can draw on: the opening cash of the day (of the
\* open drawer for the daily report, of the stored report for the previous
\* report), plus the day's Cash sales, minus the withdrawals already made.
AvailableCash(from, date) ==
    LET opening == IF from = "daily" THEN cashDrawer.openingCash
                   ELSE historicalReports[date].openingCash
        prior == IF date \in DOMAIN historicalReports
                 THEN Withdrawn(historicalReports[date]) ELSE 0
    IN opening + CashSalesOn(date) - prior

\* C6: a withdrawal of more than the available cash is rejected and leaves
\* the report archive unchanged, from the daily report and from the
\* previous report alike.
C6_WithdrawalWithinCash ==
    [][(lastOp'.op = "withdrawal"
        /\ lastOp'.args.amount > AvailableCash(lastOp'.args.from, lastOp'.args.date)) =>
         historicalReports' = historicalReports]_vars

\* C7: the sales log is append-only: every step keeps the sales already in
\* the log, unchanged and in their order.
C7_AppendOnly ==
    [][/\ Len(sales) <= Len(sales')
       /\ SubSeq(sales', 1, Len(sales)) = sales]_vars

\* Two different sales are in the log, the second just committed, after
\* products were registered and the day was started.
C7_Witness ==
    /\ lastOp.op = "finalizeSale"
    /\ Len(sales) = 2
    /\ sales[1] # sales[2]
    /\ cashDrawer.isOpen

\* C8: a commit is atomic in the local state: a finalize step either
\* appends the sale and applies its stock deduction, or does neither,
\* whatever the outcome of the remote writes.
C8_AtomicCommit ==
    [][lastOp'.op = "finalizeSale" =>
         \/ SaleCommitted /\ StockDeducted(sales'[Len(sales')].items)
         \/ sales' = sales /\ products' = products]_vars

\* A sale was just committed and its remote write failed: the sale is in
\* the local log, not in the remote table, and the stock went down.
C8_Witness ==
    /\ lastOp.op = "finalizeSale"
    /\ Len(sales) = 1
    /\ remote.sales = <<>>
    /\ netFailures = 1
    /\ \E i \in 1..Len(products) :
         /\ HasItem(sales[1].items, products[i].id)
         /\ products[i].stock < 2

\* C9: startDay while the drawer is open is rejected: the drawer is left
\* as it was.
C9_StartDayWhileOpenRejected ==
    [][(lastOp'.op = "startDay" /\ cashDrawer.isOpen) =>
         cashDrawer' = cashDrawer]_vars

\* C11: a sale is appended by a commit only in a state where the drawer is
\* open, whatever view changes, drawer transitions and bootstrap loads came
\* before.
C11_CommitOnlyWhileOpen ==
    [][(lastOp'.op = "finalizeSale" /\ Len(sales') > Len(sales)) =>
         cashDrawer.isOpen /\ cashDrawer'.isOpen]_vars

\* A sale was committed after the bootstrap fetch had been applied and the
\* day had been ended and started again.
C11_Witness ==
    /\ lastOp.op = "finalizeSale"
    /\ Len(sales) = 1
    /\ fetchState = FetchDone
    /\ cashDrawer.isOpen
    /\ historicalReports # EmptyRecord

\* The instants a day key has been taken of: the clock and the timestamps
\* of the sales.
StampedInstants == {now} \cup {sales[i].timestamp : i \in 1..Len(sales)}

\* Local midnights fall on the multiples of DayLen: one lies after t1 and
\* not after t2.
LocalMidnightBetween(t1, t2) ==
    \E k \in 1..t2 : t1 < k * DayLen /\ k * DayLen <= t2

\* C12: the day key follows the local calendar: two instants of the same
\* local day have the same key, and the last instant of a local day and the
\* first of the next have different keys even on the same UTC date.
C12_LocalDayKey ==
    \A t1, t2 \in StampedInstants :
        t1 <= t2 =>
          (localDayKey(t1) = localDayKey(t2) <=> ~LocalMidnightBetween(t1, t2))

\* Sales of the start and of the end of a local day, whose UTC dates differ,
\* and the clock just past local midnight, on the UTC date of the later sale.
C12_Witness ==
    \E i, j \in 1..Len(sales) :
        /\ sales[i].timestamp < sales[j].timestamp
        /\ localDayKey(sales[i].timestamp) = localDayKey(sales[j].timestamp)
        /\ todayStr(sales[i].timestamp) # todayStr(sales[j].timestamp)
        /\ now = sales[j].timestamp + 1
        /\ todayStr(now) = todayStr(sales[j].timestamp)
        /\ localDayKey(now) # localDayKey(sales[j].timestamp)

\* C13: day keys follow the local calendar everywhere: for every day key
\* the sales endDay attributes to it are the sales the previous report lists
\* for it, and the key under which the drawer is persisted and looked up
\* when the day is started or ended is the local day key.
C13_SameDayKeyEverywhere ==
    /\ \A K \in 0..(now + 1) :
         todaySalesOf(sales, K) = salesForSelectedDate(sales, K)
    /\ lastOp.op \in {"startDay", "endDay"} => todayStr(now) = localDayKey(now)

\* The local transition a handler step makes, stated without the outcome of
\* its remote write.
LocalTransitionDone ==
    LET op == lastOp'.op
        args == lastOp'.args
    IN /\ (op = "finalizeSale" /\ args.discountText # NoText) =>
            /\ SaleCommitted
            /\ StockDeducted(cart)
            /\ UNCHANGED <<cashDrawer, historicalReports>>
       /\ (op = "startDay" /\ args.started) =>
            /\ cashDrawer'.isOpen
            /\ cashDrawer'.previousClosingCash = cashDrawer.previousClosingCash
            /\ ~isCashDrawerModalOpen'
            /\ UNCHANGED <<products, sales, historicalReports>>
       /\ op = "endDay" =>
            /\ ~cashDrawer'.isOpen
            /\ localDayKey(now) \in DOMAIN historicalReports'
            /\ historicalReports'[localDayKey(now)].closingCash
                 = cashDrawer'.previousClosingCash
            /\ UNCHANGED <<products, sales>>
       /\ (op = "withdrawal" /\ args.accepted) =>
            /\ args.date \in DOMAIN historicalReports'
            /\ LET before == IF args.date \in DOMAIN historicalReports
                             THEN historicalReports[args.date].withdrawals ELSE <<>>
                   after == historicalReports'[args.date].withdrawals
               IN /\ Len(after) = Len(before) + 1
                  /\ SubSeq(after, 1, Len(before)) = before
                  /\ after[Len(after)].amount = args.amount
            /\ UNCHANGED <<products, sales, cashDrawer>>
       /\ (op = "addProduct" /\ args.accepted) =>
            /\ Len(products') = Len(products) + 1
            /\ SubSeq(products', 1, Len(products)) = products
            /\ UNCHANGED <<sales, cashDrawer, historicalReports>>
       /\ op = "importProducts" =>
            /\ Len(products') = Len(products) + args.rows
            /\ SubSeq(products', 1, Len(products)) = products
            /\ UNCHANGED <<sales, cashDrawer, historicalReports>>
       /\ op = "updateProduct" =>
            /\ Len(products') = Len(products)
            /\ \A i \in 1..Len(products) :
                 products[i].id # args.id => products'[i] = products[i]
            /\ UNCHANGED <<sales, cashDrawer, historicalReports>>

C15_InvalidWithdrawalRejected ==
    [][(lastOp'.op = "withdrawal"
        /\ (lastOp'.args.amount <= 0 \/ lastOp'.args.reason = "")) =>
         /\ historicalReports' = historicalReports
         /\ remote'.withdrawals = remote.withdrawals]_vars

\* C16: a commit with an empty cart is a no-op: the sales log, the products,
\* the drawer and the report archive are unchanged and no remote write is
\* attempted.
C16_EmptyCartNoOp ==
    [][(lastOp'.op \in {"finalizeSale", "finalizeEmptyCart"} /\ cart = <<>>) =>
         /\ UNCHANGED <<products, sales, cashDrawer, historicalReports>>
         /\ UNCHANGED <<remote, netFailures>>]_vars

\* "Finalizar" was clicked on the sales screen with an empty cart, with
\* products registered and an earlier sale in the log.
C16_Witness ==
    /\ lastOp.op = "finalizeEmptyCart"
    /\ SalesScreenShown
    /\ cart = <<>>
    /\ products # <<>>
    /\ Len(sales) = 1

\* C17: the sales in the log have pairwise distinct ids, also when two
\* sales are committed without the clock advancing between them.
C17_FreshSaleIds ==
    \A i, j \in 1..Len(sales) : i # j => sales[i].id # sales[j].id

\* C18: every product has stock >= 0 and price >= 0, whatever registrations,
\* edits, CSV imports and commits produced it.
C18_ProductsNonNegative ==
    \A i \in 1..Len(products) :
        products[i].stock >= 0 /\ products[i].price >= 0

\* C19: starting the day from a closed drawer opens it with openingCash =
\* the amount given, leaves previousClosingCash, the sales log, the products
\* and the report archive unchanged, and the amount given is never negative,
\* with the previous closing cash and with a typed amount alike.
C19_StartDayFromClosed ==
    [][(lastOp'.op = "startDay" /\ lastOp'.args.started /\ ~cashDrawer.isOpen) =>
         /\ lastOp'.args.amount >= 0
         /\ cashDrawer' = [isOpen |-> TRUE,
                           openingCash |-> lastOp'.args.amount,
                           previousClosingCash |-> cashDrawer.previousClosingCash]
         /\ UNCHANGED <<sales, products, historicalReports>>]_vars

\* The day was just started again with the closing cash of the day before,
\* which holds the cash of a sale.
C19_Witness ==
    /\ lastOp.op = "startDay"
    /\ lastOp.args.started /\ ~lastOp.args.wasOpen
    /\ cashDrawer.isOpen
    /\ cashDrawer.previousClosingCash > 0
    /\ cashDrawer.openingCash = cashDrawer.previousClosingCash
    /\ sales # <<>>
    /\ historicalReports # EmptyRecord

\* C20: the report endDay writes for the current day holds exactly the
\* withdrawals the archive already held under that day key, in the same
\* order (none when there was no report yet), with openingCash and
\* closingCash overwritten by the drawer's opening cash and the closing cash
\* endDay computed.
C20_EndDayKeepsWithdrawals ==
    [][lastOp'.op = "endDay" =>
         LET key == localDayKey(now)
         IN /\ key \in DOMAIN historicalReports'
            /\ historicalReports'[key].withdrawals =
                 (IF key \in DOMAIN historicalReports
                  THEN historicalReports[key].withdrawals ELSE <<>>)
            /\ historicalReports'[key].openingCash = cashDrawer.openingCash
            /\ historicalReports'[key].closingCash = cashDrawer'.previousClosingCash
            /\ \A other \in DOMAIN historicalReports' \ {key} :
                 /\ other \in DOMAIN historicalReports
                 /\ historicalReports'[other] = historicalReports[other]]_vars

\* The day has just been ended over a stub that held two different
\* withdrawals: the report keeps them in their order and its cash fields,
\* 0 in a stub, now hold the drawer's amounts.
C20_Witness ==
    /\ lastOp.op = "endDay"
    /\ localDayKey(now) \in DOMAIN historicalReports
    /\ LET report == historicalReports[localDayKey(now)]
       IN /\ Len(report.withdrawals) = 2
          /\ report.withdrawals[1] # report.withdrawals[2]
          /\ report.withdrawals[1].timestamp < report.withdrawals[2].timestamp
          /\ report.openingCash > 0
          /\ report.closingCash > report.openingCash

\* C21: a withdrawal recorded for a day without a report creates a report
\* for that day with openingCash 0, closingCash 0 and that one withdrawal;
\* for a day with a report it is appended at the end of the report's
\* withdrawals and nothing else of the report changes; the reports of the
\* other days, the sales log, the products and the drawer stay as they were.
C21_WithdrawalRecorded ==
    [][(lastOp'.op = "withdrawal" /\ lastOp'.args.accepted) =>
         LET date == lastOp'.args.date
         IN /\ date \in DOMAIN historicalReports'
            /\ LET after == historicalReports'[date]
                   n == Len(after.withdrawals)
               IN /\ n >= 1
                  /\ after.withdrawals[n].amount = lastOp'.args.amount
                  /\ after.withdrawals[n].timestamp = now
                  /\ IF date \in DOMAIN historicalReports
                     THEN after = [historicalReports[date] EXCEPT
                                     !.withdrawals = Append(@, after.withdrawals[n])]
                     ELSE /\ n = 1
                          /\ after.openingCash = 0
                          /\ after.closingCash = 0
                          /\ after.date = date
            /\ DOMAIN historicalReports' = DOMAIN historicalReports \cup {date}
            /\ \A other \in DOMAIN historicalReports \ {date} :
                 historicalReports'[other] = historicalReports[other]
            /\ UNCHANGED <<sales, products, cashDrawer>>]_vars

\* A second withdrawal has just been appended to the stub the first one
\* created, on a day that has a sale in the log and an open drawer.
C21_Witness ==
    /\ lastOp.op = "withdrawal" /\ lastOp.args.accepted
    /\ lastOp.args.date \in DOMAIN historicalReports
    /\ LET report == historicalReports[lastOp.args.date]
       IN /\ Len(report.withdrawals) = 2
          /\ report.withdrawals[1].timestamp < report.withdrawals[2].timestamp
          /\ report.openingCash = 0 /\ report.closingCash = 0
    /\ sales # <<>>
    /\ cashDrawer.isOpen /\ cashDrawer.openingCash > 0

\* C22: when a query of the bootstrap fetch returns an error, the local
\* products, sales, cashDrawer and historicalReports are what they were
\* before the fetch.
C22_FailedFetchKeepsLocal ==
    [][(lastOp'.op = "fetch" /\ (~lastOp'.args.ok \/ lastOp'.args.cdsError)) =>
         UNCHANGED <<products, sales, cashDrawer, historicalReports>>]_vars

\* C23: a withdrawal recorded against a day that has a report lowers the
\* closingCash stored in that report by its amount.
C23_WithdrawalLowersClosing ==
    [][(lastOp'.op = "withdrawal" /\ lastOp'.args.accepted
        /\ lastOp'.args.date \in DOMAIN historicalReports) =>
         historicalReports'[lastOp'.args.date].closingCash =
             historicalReports[lastOp'.args.date].closingCash - lastOp'.args.amount]_vars

\* The day closed last.  The clock does not go back and a closed drawer gets
\* no report for a new day, so while the drawer is closed it is the latest
\* day of the archive.
LastClosedDay == MaxOf(DOMAIN historicalReports)

\* C24: while the drawer is closed after an endDay, previousClosingCash is
\* the closingCash stored in the report of the day closed last, also after
\* withdrawals were recorded against that day.
C24_CarriedBalanceMatchesReport ==
    (~cashDrawer.isOpen /\ historicalReports # EmptyRecord) =>
        cashDrawer.previousClosingCash = historicalReports[LastClosedDay].closingCash

\* Two days were closed and a withdrawal has just been recorded against the
\* second one, whose closing cash the closed drawer carries.
C24_Witness ==
    /\ ~cashDrawer.isOpen
    /\ Cardinality(DOMAIN historicalReports) = 2
    /\ lastOp.op = "withdrawal" /\ lastOp.args.accepted
    /\ lastOp.args.date = LastClosedDay
    /\ historicalReports[LastClosedDay].withdrawals # <<>>
    /\ cashDrawer.previousClosingCash > 0
    /\ cashDrawer.previousClosingCash = historicalReports[LastClosedDay].closingCash
    /\ \E d \in DOMAIN historicalReports :
         historicalReports[d].closingCash # cashDrawer.previousClosingCash

\* C25: the subtotal, discountAmount and total the sales screen shows before
\* finalizing are those of the sale that finalizing commits, for every cart
\* and every discount entry, a percentage above 100 included.
C25_ScreenMatchesCommittedSale ==
    [][(lastOp'.op = "finalizeSale" /\ SaleCommitted) =>
         LET sale == sales'[Len(sales')]
             subtotal == subtotalOf(cart)
             discountAmount == screenDiscountAmount(subtotal, lastOp'.args.discountText,
                                                    sale.discountType)
         IN /\ sale.subtotal = subtotal
            /\ sale.discountAmount = discountAmount
            /\ sale.total = subtotal - discountAmount]_vars

\* The product a cart line is about (0 when the collection has none).
ProductOf(item) == FindIndex(products, LAMBDA p : p.id = item.productId)

\* C26: the cart has at most one line per product id and every line has
\* 1 <= quantity <= the stock of its product, so that at commit
\* stock - quantity >= 0 and the clamp max(0, .) changes nothing.
C26_CartWithinStock ==
    /\ \A i, j \in 1..Len(cart) : cart[i].productId = cart[j].productId => i = j
    /\ \A i \in 1..Len(cart) :
         /\ ProductOf(cart[i]) # 0
         /\ 1 <= cart[i].quantity
         /\ cart[i].quantity <= products[ProductOf(cart[i])].stock

\* C27: local work done after the bootstrap fetch was started and before its
\* result is applied survives the result: the sales of the log stay in the
\* log, the stock of every product stays what the sale left, and the drawer
\* and the report archive stay what the drawer transition or the withdrawal
\* made them.
C27_FetchKeepsLocalWork ==
    [][(lastOp'.op = "fetch" /\ lastOp'.args.ok) =>
         /\ \A i \in 1..Len(sales) :
              \E j \in 1..Len(sales') : sales'[j].id = sales[i].id
         /\ \A i \in 1..Len(products) :
              \E j \in 1..Len(products') :
                /\ products'[j].id = products[i].id
                /\ products'[j].stock = products[i].stock
         /\ cashDrawer' = cashDrawer
         /\ \A d \in DOMAIN historicalReports :
              /\ d \in DOMAIN historicalReports'
              /\ historicalReports'[d] = historicalReports[d]]_vars

\* The fetch about to resolve read the remote store as it is now, and the
\* remote store holds the row of today's drawer.
FreshAnswerOfToday ==
    /\ fetchState.phase = "answered"
    /\ ~fetchState.answer[1].cdsError
    /\ fetchState.answer[1].initial = fetchInitialData(remote, remote.cash_drawers, now)
    /\ todayStr(now) \in DOMAIN remote.cash_drawers

\* C28: the drawer survives the round trip through the remote store.  When
\* startDay and endDay of today are both persisted and the drawer is closed
\* with the closing cash recorded, the fetch yields that closed drawer; when
\* only startDay is persisted and the drawer is open with the opening cash
\* recorded, the fetch yields that open drawer, previousClosingCash
\* included.
C28_DrawerRoundTrip ==
    [][(lastOp'.op = "fetch" /\ FreshAnswerOfToday) =>
         LET row == remote.cash_drawers[todayStr(now)]
         IN /\ (/\ row.closing_cash # NULL
                /\ ~cashDrawer.isOpen
                /\ cashDrawer.previousClosingCash = row.closing_cash[1])
               => (/\ ~cashDrawer'.isOpen
                   /\ cashDrawer'.previousClosingCash = row.closing_cash[1])
            /\ (/\ row.closing_cash = NULL
                /\ cashDrawer.isOpen
                /\ cashDrawer.openingCash = row.opening_cash)
               => cashDrawer' = cashDrawer]_vars

\* C29: a cash sale is counted once in the carried balance.  The day was
\* closed with all its Cash sales counted and reopened with that closing
\* cash as the opening amount; closing it again with no new sale leaves
\* previousClosingCash and the closing cash of the day unchanged: the first
\* opening cash plus the day's Cash sales.
C29_CashSalesCountedOnce ==
    [][(/\ lastOp'.op = "endDay"
        /\ cashDrawer.isOpen
        /\ localDayKey(now) \in DOMAIN historicalReports
        /\ LET report == historicalReports[localDayKey(now)]
           IN /\ report.closingCash = report.openingCash + CashSalesOn(localDayKey(now))
              /\ cashDrawer.openingCash = report.closingCash
              /\ cashDrawer.previousClosingCash = report.closingCash) =>
         LET key == localDayKey(now)
         IN /\ cashDrawer'.previousClosingCash = cashDrawer.previousClosingCash
            /\ historicalReports'[key].closingCash =
                 historicalReports[key].openingCash + CashSalesOn(key)]_vars

\* C30: the closing cash endDay records includes every Cash sale committed
\* since the day was started (before the first endDay these are all the
\* Cash sales of the log) and is the expected closing the daily report
\* showed when the button was clicked, also when the local date has changed
\* since the session began.
C30_EndDayCountsSessionSales ==
    [][(lastOp'.op = "endDay" /\ cashDrawer.isOpen) =>
         /\ historicalReports = EmptyRecord =>
              cashDrawer'.previousClosingCash =
                  cashDrawer.openingCash + totalCashSalesOf(sales)
         /\ cashDrawer'.previousClosingCash =
              expectedClosingCashOf(cashDrawer, sales, today)]_vars

=============================================================================
